---- MODULE Spec2Model ----
(***************************************************************************)
(* NeuraCare home screen: the vital-status and health-score evaluator.     *)
(*                                                                         *)
(* Three generations of the home screen (Index) live in the repository:    *)
(*   "steps"  : src/unnamed/part_003 lines 1174-2488 (seven vitals with    *)
(*              steps),                                                    *)
(*   "weight" : src/unnamed/part_003 lines 3038-4646 (seven vitals with    *)
(*              weight, no steps),                                         *)
(*   "legacy" : src/unnamed/part_003 lines 2489-3037 (four vitals, score   *)
(*              computed at render).                                       *)
(*                                                                         *)
(* JavaScript values are modelled with their runtime type.  Numbers are    *)
(* exact rationals p/q (q > 0) plus NaN, Infinity and -Infinity; IEEE-754  *)
(* rounding of a quotient is not modelled.  Strings are sequences of       *)
(* one-character strings so that trim, split, includes, parseInt and       *)
(* parseFloat are computed, not assumed.                                   *)
(***************************************************************************)
EXTENDS Integers, Sequences, FiniteSets, TLC

VARIABLES
  variant,     \* which generation of Index is mounted
  userData,    \* useState<UserData>: [vitals, healthScore]
  debugInfo,   \* useState debugInfo, as set by calculateHealthProgress
  pending,     \* the status-update effect is scheduled (its deps changed)
  evaluated,   \* the status-update effect has run at least once
  shown,       \* what the legacy screen rendered as its health score
  threw,       \* an uncaught exception escaped an evaluator call
  memo,        \* a remembered evaluation: [set, input, statuses, score]
  vitalsRef,   \* identity of the userData.vitals object (the effect's dep)
  loadedBy,    \* the load path that stored the vitals held: listener, refresh
  tracked,     \* the label the track screen last wrote to the data store
  reminders,   \* the reminders collection of the data store, by document
  scheduled,   \* the notification service: [next, pending]
  now,         \* the clock, in minutes
  form         \* the reminder form: [editing], the index of the reminder edited

\* what the reminder and track screens own
otherVars == <<tracked, reminders, scheduled, now, form>>

vars ==
  <<variant, userData, debugInfo, pending, evaluated, shown, threw, memo,
    vitalsRef, loadedBy, tracked, reminders, scheduled, now, form>>

---------------------------------------------------------------------------
(* JavaScript values *)

JsVal(t, p, q, s) == [t |-> t, p |-> p, q |-> q, s |-> s]

Undefined == JsVal("undefined", 0, 1, <<>>)
Null      == JsVal("null", 0, 1, <<>>)
NaN       == JsVal("nan", 0, 1, <<>>)
PosInf    == JsVal("inf", 0, 1, <<>>)
NegInf    == JsVal("ninf", 0, 1, <<>>)
JsTrue    == JsVal("boolean", 1, 1, <<>>)
\* the integer n
Num(n)    == JsVal("num", n, 1, <<>>)
Str(s)    == JsVal("string", 0, 1, s)

NumberTags == {"num", "nan", "inf", "ninf"}

TypeOf(v) ==
  CASE v.t \in NumberTags -> "number"
    [] v.t = "string"     -> "string"
    [] v.t = "undefined"  -> "undefined"
    [] v.t = "boolean"    -> "boolean"
    [] OTHER              -> "object"      \* typeof null === 'object'

IsNaN(v) == v.t = "nan"

\* ToBoolean, as used by `x && ...`, `x || d` and `!x`
Truthy(v) ==
  CASE v.t = "num"     -> v.p # 0
    [] v.t = "inf"     -> TRUE
    [] v.t = "ninf"    -> TRUE
    [] v.t = "string"  -> Len(v.s) > 0
    [] v.t = "boolean" -> v.p = 1
    [] OTHER           -> FALSE            \* undefined, null, NaN

\* a < b on numbers (false when either is NaN)
Lt(a, b) ==
  /\ a.t \in NumberTags /\ b.t \in NumberTags
  /\ a.t # "nan" /\ b.t # "nan"
  /\ \/ a.t = "ninf" /\ b.t # "ninf"
     \/ b.t = "inf" /\ a.t # "inf"
     \/ a.t = "num" /\ b.t = "num" /\ a.p * b.q < b.p * a.q

NumEq(a, b) ==
  /\ a.t \in NumberTags /\ b.t \in NumberTags
  /\ a.t # "nan" /\ b.t # "nan"
  /\ \/ a.t = b.t /\ a.t # "num"
     \/ a.t = "num" /\ b.t = "num" /\ a.p * b.q = b.p * a.q

Le(a, b) == Lt(a, b) \/ NumEq(a, b)
Gt(a, b) == Lt(b, a)
Ge(a, b) == Le(b, a)

Sign(n) == IF n > 0 THEN 1 ELSE IF n < 0 THEN -1 ELSE 0
Abs(n) == IF n < 0 THEN -n ELSE n

RECURSIVE Gcd(_, _)
Gcd(a, b) == IF b = 0 THEN a ELSE Gcd(b, a % b)

\* the rational p/q (q > 0) in lowest terms
Rat(p, q) ==
  LET g == Gcd(Abs(p), q) IN JsVal("num", p \div g, q \div g, <<>>)

\* the decimal w.d (one fractional digit), e.g. Dec(37, 5) = 37.5
Dec(w, d) == Rat(w * 10 + d, 10)

SignOf(a) ==
  CASE a.t = "num"  -> Sign(a.p)
    [] a.t = "inf"  -> 1
    [] a.t = "ninf" -> -1
    [] OTHER        -> 0

\* a / b on numbers
Div(a, b) ==
  CASE a.t = "nan" \/ b.t = "nan" -> NaN
    [] a.t = "num" /\ b.t = "num" /\ b.p # 0 ->
         Rat(a.p * b.q * Sign(b.p), a.q * Abs(b.p))
    [] a.t = "num" /\ b.t = "num" /\ b.p = 0 ->
         IF a.p = 0 THEN NaN ELSE IF a.p > 0 THEN PosInf ELSE NegInf
    [] a.t = "num" -> Num(0)                        \* finite / +-Infinity
    [] b.t # "num" -> NaN                           \* Infinity / Infinity
    [] OTHER ->                                     \* +-Infinity / finite
         IF SignOf(a) * (IF b.p < 0 THEN -1 ELSE 1) > 0 THEN PosInf ELSE NegInf

\* a * b on numbers
Mul(a, b) ==
  CASE a.t = "nan" \/ b.t = "nan" -> NaN
    [] a.t = "num" /\ b.t = "num" -> Rat(a.p * b.p, a.q * b.q)
    [] SignOf(a) * SignOf(b) = 0 -> NaN             \* 0 * Infinity
    [] SignOf(a) * SignOf(b) > 0 -> PosInf
    [] OTHER -> NegInf

\* a + b on numbers
Add(a, b) ==
  CASE a.t = "nan" \/ b.t = "nan" -> NaN
    [] a.t = "num" /\ b.t = "num" -> Rat(a.p * b.q + b.p * a.q, a.q * b.q)
    [] a.t = "num" -> b
    [] b.t = "num" -> a
    [] a.t = b.t -> a
    [] OTHER -> NaN                                 \* Infinity + -Infinity

\* Math.min(a, b)
MathMin(a, b) ==
  IF a.t = "nan" \/ b.t = "nan" THEN NaN ELSE IF Lt(b, a) THEN b ELSE a

\* Math.round(a): the nearest integer, halves towards +Infinity
MathRound(a) ==
  IF a.t = "num" THEN Num((2 * a.p + a.q) \div (2 * a.q)) ELSE a

---------------------------------------------------------------------------
(* JavaScript strings *)

Digits == {"0", "1", "2", "3", "4", "5", "6", "7", "8", "9"}

DigitVal(c) ==
  CASE c = "0" -> 0 [] c = "1" -> 1 [] c = "2" -> 2 [] c = "3" -> 3
    [] c = "4" -> 4 [] c = "5" -> 5 [] c = "6" -> 6 [] c = "7" -> 7
    [] c = "8" -> 8 [] c = "9" -> 9

DigitChar(d) == <<"0", "1", "2", "3", "4", "5", "6", "7", "8", "9">>[d + 1]

\* String(n) for a natural number n
RECURSIVE DecStr(_)
DecStr(n) == IF n < 10 THEN <<DigitChar(n)>>
             ELSE DecStr(n \div 10) \o <<DigitChar(n % 10)>>

RECURSIVE TrimStart(_)
TrimStart(s) ==
  IF Len(s) > 0 /\ Head(s) = " " THEN TrimStart(Tail(s)) ELSE s

RECURSIVE TrimEnd(_)
TrimEnd(s) ==
  IF Len(s) > 0 /\ s[Len(s)] = " " THEN TrimEnd(SubSeq(s, 1, Len(s) - 1)) ELSE s

\* String.prototype.trim
Trim(s) == TrimEnd(TrimStart(s))

\* String.prototype.includes, for a one-character needle
Includes(s, c) == \E i \in 1..Len(s) : s[i] = c

\* String.prototype.split, for a one-character separator
RECURSIVE Split(_, _)
Split(s, c) ==
  IF ~Includes(s, c) THEN <<s>>
  ELSE LET i == CHOOSE j \in 1..Len(s) :
                  s[j] = c /\ \A k \in 1..(j - 1) : s[k] # c
       IN <<SubSeq(s, 1, i - 1)>> \o Split(SubSeq(s, i + 1, Len(s)), c)

\* the longest prefix of s made of digits
RECURSIVE DigitPrefix(_)
DigitPrefix(s) ==
  IF Len(s) > 0 /\ Head(s) \in Digits
  THEN <<Head(s)>> \o DigitPrefix(Tail(s)) ELSE <<>>

RECURSIVE DigitsValue(_)
DigitsValue(ds) ==
  IF Len(ds) = 0 THEN 0
  ELSE DigitsValue(SubSeq(ds, 1, Len(ds) - 1)) * 10 + DigitVal(ds[Len(ds)])

RECURSIVE Pow10(_)
Pow10(k) == IF k = 0 THEN 1 ELSE 10 * Pow10(k - 1)

\* parseInt(s): leading white space, an optional sign, then decimal digits;
\* whatever follows the digits is ignored; NaN when there is no digit
ParseInt(s) ==
  LET t    == TrimStart(s)
      neg  == Len(t) > 0 /\ Head(t) = "-"
      body == IF Len(t) > 0 /\ Head(t) \in {"-", "+"} THEN Tail(t) ELSE t
      ds   == DigitPrefix(body)
  IN IF Len(ds) = 0 THEN NaN
     ELSE Num((IF neg THEN -1 ELSE 1) * DigitsValue(ds))

\* parseFloat(s): leading white space, an optional sign, digits with an
\* optional fraction; NaN when neither part has a digit
ParseFloat(s) ==
  LET t    == TrimStart(s)
      neg  == Len(t) > 0 /\ Head(t) = "-"
      body == IF Len(t) > 0 /\ Head(t) \in {"-", "+"} THEN Tail(t) ELSE t
      ip   == DigitPrefix(body)
      rest == SubSeq(body, Len(ip) + 1, Len(body))
      fp   == IF Len(rest) > 0 /\ Head(rest) = "." THEN DigitPrefix(Tail(rest))
              ELSE <<>>
      mag  == Rat(DigitsValue(ip) * Pow10(Len(fp)) + DigitsValue(fp),
                  Pow10(Len(fp)))
  IN IF Len(ip) = 0 /\ Len(fp) = 0 THEN NaN
     ELSE IF neg THEN Mul(Num(-1), mag) ELSE mag

---------------------------------------------------------------------------
(* VitalData and UserData *)

\* a VitalData object; ex tells whether vitals[key] is an object at all
VitalData(value, unit, status, goal, type) ==
  [ex |-> "object", value |-> value, unit |-> unit, status |-> status,
   goal |-> goal, type |-> type]

\* vitals[key] is undefined (the key is absent)
Absent ==
  [ex |-> "undefined", value |-> Undefined, unit |-> "", status |-> "",
   goal |-> Undefined, type |-> ""]

\* `if (data)`, `vitals.heartRate && ...`
Exists(data) == data.ex = "object"

\* `vitals.steps?.goal`
GoalOf(data) == IF Exists(data) THEN data.goal ELSE Undefined

\* type VitalType of each generation
KindsOf(ver) ==
  CASE ver = "steps" ->
         {"heartRate", "steps", "sleep", "water", "temperature",
          "oxygenLevel", "bloodPressure"}
    [] ver = "weight" ->
         {"heartRate", "sleep", "water", "temperature", "oxygenLevel",
          "bloodPressure", "weight"}
    [] OTHER -> {"heartRate", "steps", "sleep", "water"}

---------------------------------------------------------------------------
(* calculateVitalStatus *)

\* `goal || fallback`
OrDefault(goal, fallback) == IF Truthy(goal) THEN goal ELSE fallback

\* variant: 60 and 100 fall outside the normal band
heartRateStatus_Inclusive(value) ==
  IF Le(value, Num(60)) THEN "Low"
  ELSE IF Ge(value, Num(100)) THEN "High"
  ELSE "Normal"

\* case 'heartRate'
heartRateStatus(value) ==
  IF Lt(value, Num(60)) THEN "Low"
  ELSE IF Gt(value, Num(100)) THEN "High"
  ELSE "Normal"

\* variant: "Almost There" from 70% of the goal
stepsStatus_SeventyPercent(ud, value) ==
  LET stepsGoal  == OrDefault(GoalOf(ud.vitals["steps"]), Num(10000))
      percentage == Mul(Div(value, stepsGoal), Num(100))
  IN IF Ge(percentage, Num(100)) THEN "Achieved"
     ELSE IF Ge(percentage, Num(75)) THEN "Almost There"
     ELSE IF Ge(percentage, Num(70)) THEN "Almost There"
     ELSE IF Ge(percentage, Num(50)) THEN "On Track"
     ELSE IF Ge(percentage, Num(25)) THEN "Getting Started"
     ELSE "Need More"

\* case 'steps' (the steps generation only)
stepsStatus(ud, value) ==
  LET stepsGoal  == OrDefault(GoalOf(ud.vitals["steps"]), Num(10000))
      percentage == Mul(Div(value, stepsGoal), Num(100))
  IN IF Ge(percentage, Num(100)) THEN "Achieved"
     ELSE IF Ge(percentage, Num(75)) THEN "Almost There"
     ELSE IF Ge(percentage, Num(50)) THEN "On Track"
     ELSE IF Ge(percentage, Num(25)) THEN "Getting Started"
     ELSE "Need More"

\* case 'weight' (the weight generation only)
weightStatus(value) ==
  IF Lt(value, Num(45)) THEN "Low"
  ELSE IF Gt(value, Num(100)) THEN "High"
  ELSE "Normal"

\* variant: two litres when no goal is stored
waterStatus_DefaultTwoLitres(ud, value) ==
  LET waterGoal       == OrDefault(GoalOf(ud.vitals["water"]), Num(2))
      waterPercentage == Mul(Div(value, waterGoal), Num(100))
  IN IF Ge(waterPercentage, Num(100)) THEN "Hydrated"
     ELSE IF Ge(waterPercentage, Num(75)) THEN "Almost There"
     ELSE IF Ge(waterPercentage, Num(50)) THEN "Halfway"
     ELSE "Need More"

\* variant: "Almost There" from 70% of the goal
waterStatus_SeventyPercent(ud, value) ==
  LET waterGoal       == OrDefault(GoalOf(ud.vitals["water"]), Dec(2, 5))
      waterPercentage == Mul(Div(value, waterGoal), Num(100))
  IN IF Ge(waterPercentage, Num(100)) THEN "Hydrated"
     ELSE IF Ge(waterPercentage, Num(70)) THEN "Almost There"
     ELSE IF Ge(waterPercentage, Num(50)) THEN "Halfway"
     ELSE "Need More"

\* case 'water'
waterStatus(ud, value) ==
  LET waterGoal       == OrDefault(GoalOf(ud.vitals["water"]), Dec(2, 5))
      waterPercentage == Mul(Div(value, waterGoal), Num(100))
  IN IF Ge(waterPercentage, Num(100)) THEN "Hydrated"
     ELSE IF Ge(waterPercentage, Num(75)) THEN "Almost There"
     ELSE IF Ge(waterPercentage, Num(50)) THEN "Halfway"
     ELSE "Need More"

\* variant: 36 and 37.5 fall outside the normal band
temperatureStatus_Inclusive(value) ==
  IF Le(value, Num(36)) THEN "Low"
  ELSE IF Ge(value, Dec(37, 5)) THEN "High"
  ELSE "Normal"

\* case 'temperature'
temperatureStatus(value) ==
  IF Lt(value, Num(36)) THEN "Low"
  ELSE IF Gt(value, Dec(37, 5)) THEN "High"
  ELSE "Normal"

\* case 'oxygenLevel'
oxygenLevelStatus(value) ==
  IF Lt(value, Num(95)) THEN "Low" ELSE "Normal"

\* variant: the minutes count as a fraction of an hour
sleepStatus_WithMinutes(s) ==
  LET parts   == Split(s, "h")
      whole   == ParseFloat(parts[1])
      minutes == IF Len(parts) >= 2 THEN ParseFloat(parts[2]) ELSE NaN
      hours   == IF IsNaN(whole) \/ IsNaN(minutes) THEN whole
                 ELSE Add(whole, Div(minutes, Num(60)))
  IN IF IsNaN(hours) THEN "Unknown"
     ELSE IF Ge(hours, Num(7)) /\ Le(hours, Num(9)) THEN "Good"
     ELSE IF Gt(hours, Num(9)) THEN "Too Much"
     ELSE "Not Enough"

\* case 'sleep', for the string s
sleepStatus(s) ==
  LET hours == ParseFloat(Split(s, "h")[1])
  IN IF IsNaN(hours) THEN "Unknown"
     ELSE IF Ge(hours, Num(7)) /\ Le(hours, Num(9)) THEN "Good"
     ELSE IF Gt(hours, Num(9)) THEN "Too Much"
     ELSE "Not Enough"

\* variant: the low band is tested before the high band
bloodPressureStatus_LowFirst(s) ==
  LET parts == Split(s, "/")
  IN IF Len(parts) = 2
     THEN LET systolic  == ParseInt(parts[1])
              diastolic == ParseInt(parts[2])
          IN IF IsNaN(systolic) \/ IsNaN(diastolic) THEN "Unknown"
             ELSE IF Le(systolic, Num(90)) \/ Le(diastolic, Num(60)) THEN "Low"
             ELSE IF Ge(systolic, Num(140)) \/ Ge(diastolic, Num(90)) THEN "High"
             ELSE "Normal"
     ELSE "Unknown"

\* case 'bloodPressure', for the string s
bloodPressureStatus(s) ==
  LET parts == Split(s, "/")
  IN IF Len(parts) = 2
     THEN LET systolic  == ParseInt(parts[1])
              diastolic == ParseInt(parts[2])
          IN IF IsNaN(systolic) \/ IsNaN(diastolic) THEN "Unknown"
             ELSE IF Ge(systolic, Num(140)) \/ Ge(diastolic, Num(90)) THEN "High"
             ELSE IF Le(systolic, Num(90)) \/ Le(diastolic, Num(60)) THEN "Low"
             ELSE "Normal"
     ELSE "Unknown"

\* variant: a number for a kind without a numeric rule is 'Unknown'
calculateVitalStatus_NoNumericFallback(ver, ud, type, value) ==
  IF value.t \in {"null", "undefined"} THEN "Unknown"
  ELSE IF TypeOf(value) = "number" THEN
    IF IsNaN(value) THEN "Unknown"
    ELSE CASE type = "heartRate" -> heartRateStatus(value)
           [] type = "steps" /\ ver = "steps" -> stepsStatus(ud, value)
           [] type = "weight" /\ ver = "weight" -> weightStatus(value)
           [] type = "water" -> waterStatus(ud, value)
           [] type = "temperature" -> temperatureStatus(value)
           [] type = "oxygenLevel" -> oxygenLevelStatus(value)
           [] OTHER -> "Unknown"
  ELSE IF TypeOf(value) = "string" THEN
    IF Len(Trim(value.s)) = 0 THEN "Unknown"
    ELSE CASE type = "sleep" -> sleepStatus(value.s)
           [] type = "bloodPressure" -> bloodPressureStatus(value.s)
           [] OTHER -> "Unknown"
  ELSE "Unknown"

\* calculateVitalStatus(type, value), closed over userData (ud) in
\* generation ver
calculateVitalStatus(ver, ud, type, value) ==
  IF value.t \in {"null", "undefined"} THEN "Unknown"
  ELSE IF TypeOf(value) = "number" THEN
    IF IsNaN(value) THEN "Unknown"
    ELSE CASE type = "heartRate" -> heartRateStatus(value)
           [] type = "steps" /\ ver = "steps" -> stepsStatus(ud, value)
           [] type = "weight" /\ ver = "weight" -> weightStatus(value)
           [] type = "water" -> waterStatus(ud, value)
           [] type = "temperature" -> temperatureStatus(value)
           [] type = "oxygenLevel" -> oxygenLevelStatus(value)
           [] OTHER -> "Normal"
  ELSE IF TypeOf(value) = "string" THEN
    IF Len(Trim(value.s)) = 0 THEN "Unknown"
    ELSE CASE type = "sleep" -> sleepStatus(value.s)
           [] type = "bloodPressure" -> bloodPressureStatus(value.s)
           [] OTHER -> "Unknown"
  ELSE "Unknown"

---------------------------------------------------------------------------
(* calculateHealthProgress (the normalized score of the steps and weight  *)
(* generations).  Each block yields whether it did scoreComponents++ and  *)
(* the points it added to score.                                          *)

Skipped == [scored |-> FALSE, points |-> 0]
Scored(points) == [scored |-> TRUE, points |-> points]

\* variant: the guard without its isNaN test
NumericReading_NoNaNCheck(data) ==
  Exists(data) /\ TypeOf(data.value) = "number"

\* `typeof data.value === 'number' && !isNaN(data.value)` under `data &&`
NumericReading(data) ==
  Exists(data) /\ TypeOf(data.value) = "number" /\ ~IsNaN(data.value)

\* variant: the optimal band ends below 80 and the elevated one below 120
heartRateScore_OpenBands(hr) ==
  IF Ge(hr, Num(60)) /\ Le(hr, Num(100))
  THEN (IF Ge(hr, Num(60)) /\ Lt(hr, Num(80)) THEN 25 ELSE 20)
  ELSE IF Gt(hr, Num(100)) /\ Lt(hr, Num(120)) THEN 10
  ELSE IF Ge(hr, Num(120)) THEN 0
  ELSE IF Ge(hr, Num(50)) /\ Lt(hr, Num(60)) THEN 15
  ELSE 0

heartRateScore(hr) ==
  IF Ge(hr, Num(60)) /\ Le(hr, Num(100))
  THEN (IF Ge(hr, Num(60)) /\ Le(hr, Num(80)) THEN 25 ELSE 20)
  ELSE IF Gt(hr, Num(100)) /\ Le(hr, Num(120)) THEN 10
  ELSE IF Gt(hr, Num(120)) THEN 0
  ELSE IF Ge(hr, Num(50)) /\ Lt(hr, Num(60)) THEN 15
  ELSE 0

heartRateBlock(vitals) ==
  IF NumericReading(vitals["heartRate"])
  THEN Scored(heartRateScore(vitals["heartRate"].value))
  ELSE Skipped

\* `(data.goal && !isNaN(data.goal)) ? data.goal : fallback`
GoalOrDefault(data, fallback) ==
  IF Truthy(data.goal) /\ ~IsNaN(data.goal) THEN data.goal ELSE fallback

\* variant: points proportional to the progress, as in the legacy generation
stepsScore_Proportional(value, stepsGoal) ==
  LET pts == MathRound(Mul(Div(value, stepsGoal), Num(25)))
  IN IF pts.t = "num" /\ pts.p >= 0 THEN pts.p ELSE 0

stepsScore(value, stepsGoal) ==
  LET percentage == MathMin(Div(value, stepsGoal), Dec(1, 5))
  IN IF Ge(percentage, Dec(0, 9)) /\ Le(percentage, Dec(1, 1)) THEN 25
     ELSE IF Gt(percentage, Dec(1, 1)) /\ Le(percentage, Dec(1, 5)) THEN 20
     ELSE IF Gt(percentage, Dec(1, 5)) THEN 15
     ELSE IF Ge(percentage, Dec(0, 7)) /\ Lt(percentage, Dec(0, 9)) THEN 20
     ELSE IF Ge(percentage, Dec(0, 5)) /\ Lt(percentage, Dec(0, 7)) THEN 15
     ELSE IF Ge(percentage, Dec(0, 3)) /\ Lt(percentage, Dec(0, 5)) THEN 10
     ELSE 5

stepsBlock(vitals) ==
  IF NumericReading(vitals["steps"])
  THEN Scored(stepsScore(vitals["steps"].value,
                         GoalOrDefault(vitals["steps"], Num(10000))))
  ELSE Skipped

\* the hours the sleep block reads out of the value
sleepHoursOf(sleepValue) ==
  IF TypeOf(sleepValue) = "string" /\ Includes(sleepValue.s, "h")
  THEN ParseFloat(Split(sleepValue.s, "h")[1])
  ELSE IF TypeOf(sleepValue) = "number" /\ ~IsNaN(sleepValue) THEN sleepValue
  ELSE Num(0)

sleepScore(sleepHours) ==
  IF Ge(sleepHours, Num(7)) /\ Le(sleepHours, Num(9))
  THEN (IF Ge(sleepHours, Num(7)) /\ Le(sleepHours, Num(8)) THEN 25 ELSE 22)
  ELSE IF Ge(sleepHours, Num(6)) /\ Lt(sleepHours, Num(7)) THEN 15
  ELSE IF Gt(sleepHours, Num(9)) /\ Le(sleepHours, Num(10)) THEN 15
  ELSE IF Ge(sleepHours, Num(5)) /\ Lt(sleepHours, Num(6)) THEN 8
  ELSE IF Gt(sleepHours, Num(10)) /\ Le(sleepHours, Num(12)) THEN 8
  ELSE 0

sleepBlock(vitals) ==
  IF Exists(vitals["sleep"])
  THEN LET sleepHours == sleepHoursOf(vitals["sleep"].value)
       IN IF ~IsNaN(sleepHours) /\ Gt(sleepHours, Num(0))
          THEN Scored(sleepScore(sleepHours))
          ELSE Skipped
  ELSE Skipped

\* variant: full points from 90% of the goal upwards
waterScore_Capped(value, waterGoal) ==
  LET waterRatio == Div(value, waterGoal)
  IN IF Ge(waterRatio, Dec(0, 9)) THEN 25
     ELSE IF Ge(waterRatio, Dec(0, 7)) /\ Lt(waterRatio, Dec(0, 9)) THEN 20
     ELSE IF Ge(waterRatio, Dec(0, 5)) /\ Lt(waterRatio, Dec(0, 7)) THEN 15
     ELSE IF Ge(waterRatio, Dec(0, 3)) /\ Lt(waterRatio, Dec(0, 5)) THEN 10
     ELSE 5

\* variant: points proportional to the ratio, as in the legacy generation
waterScore_Proportional(value, waterGoal) ==
  LET pts == MathRound(Mul(Div(value, waterGoal), Num(25)))
  IN IF pts.t = "num" /\ pts.p >= 0 THEN pts.p ELSE 0

waterScore(value, waterGoal) ==
  LET waterRatio == Div(value, waterGoal)
  IN IF Ge(waterRatio, Dec(0, 9)) /\ Le(waterRatio, Dec(1, 2)) THEN 25
     ELSE IF Gt(waterRatio, Dec(1, 2)) /\ Le(waterRatio, Dec(1, 5)) THEN 20
     ELSE IF Gt(waterRatio, Dec(1, 5)) /\ Le(waterRatio, Num(2)) THEN 15
     ELSE IF Gt(waterRatio, Num(2)) THEN 5
     ELSE IF Ge(waterRatio, Dec(0, 7)) /\ Lt(waterRatio, Dec(0, 9)) THEN 20
     ELSE IF Ge(waterRatio, Dec(0, 5)) /\ Lt(waterRatio, Dec(0, 7)) THEN 15
     ELSE IF Ge(waterRatio, Dec(0, 3)) /\ Lt(waterRatio, Dec(0, 5)) THEN 10
     ELSE 5

waterBlock(vitals) ==
  IF NumericReading(vitals["water"])
  THEN Scored(waterScore(vitals["water"].value,
                         GoalOrDefault(vitals["water"], Dec(2, 5))))
  ELSE Skipped

\* the systolic value the blood-pressure block reads out of the value
systolicOf(value) ==
  IF TypeOf(value) = "string" /\ Includes(value.s, "/")
  THEN ParseInt(Split(value.s, "/")[1])
  ELSE IF TypeOf(value) = "number" THEN value
  ELSE Num(0)

bpScore(systolic) ==
  IF Lt(systolic, Num(120)) THEN 25
  ELSE IF Ge(systolic, Num(120)) /\ Le(systolic, Num(129)) THEN 20
  ELSE IF Ge(systolic, Num(130)) /\ Le(systolic, Num(139)) THEN 15
  ELSE IF Ge(systolic, Num(140)) /\ Le(systolic, Num(159)) THEN 5
  ELSE 0

bloodPressureBlock(vitals) ==
  LET data == vitals["bloodPressure"]
  IN IF Exists(data) /\ TypeOf(data.value) \in {"string", "number"}
     THEN LET systolic == systolicOf(data.value)
          IN IF ~IsNaN(systolic) /\ Gt(systolic, Num(0))
             THEN Scored(bpScore(systolic))
             ELSE Skipped
     ELSE Skipped

\* variant: the bands start one point higher
o2Score_ShiftedBands(o2) ==
  IF Gt(o2, Num(95)) /\ Le(o2, Num(100)) THEN 25
  ELSE IF Gt(o2, Num(90)) /\ Le(o2, Num(95)) THEN 15
  ELSE IF Gt(o2, Num(85)) /\ Le(o2, Num(90)) THEN 5
  ELSE 0

o2Score(o2) ==
  IF Ge(o2, Num(95)) /\ Le(o2, Num(100)) THEN 25
  ELSE IF Ge(o2, Num(90)) /\ Lt(o2, Num(95)) THEN 15
  ELSE IF Ge(o2, Num(85)) /\ Lt(o2, Num(90)) THEN 5
  ELSE 0

\* variant: a saturation above 100 is left out of the score
oxygenLevelBlock_SkipAbove100(vitals) ==
  IF NumericReading(vitals["oxygenLevel"])
     /\ Le(vitals["oxygenLevel"].value, Num(100))
  THEN Scored(o2Score(vitals["oxygenLevel"].value))
  ELSE Skipped

oxygenLevelBlock(vitals) ==
  IF NumericReading(vitals["oxygenLevel"])
  THEN Scored(o2Score(vitals["oxygenLevel"].value))
  ELSE Skipped

\* unit is `data.unit || "°C"`, written here without the degree sign
tempScore(temp, unit) ==
  IF unit = "C" THEN
    IF Ge(temp, Dec(36, 1)) /\ Le(temp, Dec(37, 2)) THEN 25
    ELSE IF (Ge(temp, Dec(35, 5)) /\ Lt(temp, Dec(36, 1)))
            \/ (Gt(temp, Dec(37, 2)) /\ Le(temp, Num(38))) THEN 15
    ELSE IF (Ge(temp, Num(35)) /\ Lt(temp, Dec(35, 5)))
            \/ (Gt(temp, Num(38)) /\ Le(temp, Num(39))) THEN 5
    ELSE 0
  ELSE IF unit = "F" THEN
    IF Ge(temp, Num(97)) /\ Le(temp, Num(99)) THEN 25
    ELSE IF (Ge(temp, Num(96)) /\ Lt(temp, Num(97)))
            \/ (Gt(temp, Num(99)) /\ Le(temp, Dec(100, 4))) THEN 15
    ELSE IF (Ge(temp, Num(95)) /\ Lt(temp, Num(96)))
            \/ (Gt(temp, Dec(100, 4)) /\ Le(temp, Dec(102, 2))) THEN 5
    ELSE 0
  ELSE 0

temperatureBlock(vitals) ==
  LET data == vitals["temperature"]
  IN IF NumericReading(data)
     THEN Scored(tempScore(data.value, IF data.unit = "" THEN "C" ELSE data.unit))
     ELSE Skipped

weightScore(weight) ==
  IF Ge(weight, Num(50)) /\ Le(weight, Num(100)) THEN 25
  ELSE IF (Ge(weight, Num(45)) /\ Lt(weight, Num(50)))
          \/ (Gt(weight, Num(100)) /\ Le(weight, Num(110))) THEN 15
  ELSE IF (Ge(weight, Num(40)) /\ Lt(weight, Num(45)))
          \/ (Gt(weight, Num(110)) /\ Le(weight, Num(120))) THEN 5
  ELSE 0

weightBlock(vitals) ==
  IF NumericReading(vitals["weight"])
  THEN Scored(weightScore(vitals["weight"].value))
  ELSE Skipped

\* the block of calculateHealthProgress that handles kind k
BlockOf(k, vitals) ==
  CASE k = "heartRate"     -> heartRateBlock(vitals)
    [] k = "steps"         -> stepsBlock(vitals)
    [] k = "sleep"         -> sleepBlock(vitals)
    [] k = "water"         -> waterBlock(vitals)
    [] k = "bloodPressure" -> bloodPressureBlock(vitals)
    [] k = "oxygenLevel"   -> oxygenLevelBlock(vitals)
    [] k = "temperature"   -> temperatureBlock(vitals)
    [] k = "weight"        -> weightBlock(vitals)

\* the blocks in the order the function runs them
BlockOrder(ver) ==
  IF ver = "steps"
  THEN <<"heartRate", "steps", "sleep", "water", "bloodPressure",
         "oxygenLevel", "temperature">>
  ELSE <<"heartRate", "sleep", "water", "bloodPressure", "oxygenLevel",
         "temperature", "weight">>

\* score after the first n blocks
RECURSIVE ScoreAfter(_, _, _)
ScoreAfter(ver, vitals, n) ==
  IF n = 0 THEN 0
  ELSE ScoreAfter(ver, vitals, n - 1) + BlockOf(BlockOrder(ver)[n], vitals).points

\* scoreComponents after the first n blocks
RECURSIVE ComponentsAfter(_, _, _)
ComponentsAfter(ver, vitals, n) ==
  IF n = 0 THEN 0
  ELSE ComponentsAfter(ver, vitals, n - 1)
       + (IF BlockOf(BlockOrder(ver)[n], vitals).scored THEN 1 ELSE 0)

\* variant: normalised over all seven metrics instead of the scored ones
Normalize_AllMetrics(score, scoreComponents) ==
  IF scoreComponents = 0 THEN Num(0)
  ELSE MathRound(Mul(Div(Num(score), Num(7 * 25)), Num(100)))

\* the return statement
Normalize(score, scoreComponents) ==
  IF scoreComponents = 0 THEN Num(0)
  ELSE MathRound(Mul(Div(Num(score), Num(scoreComponents * 25)), Num(100)))

\* calculateHealthProgress(): the value returned, the state it sets through
\* setDebugInfo and the per-metric notes of debugScoreInfo
calculateHealthProgress(ver, ud) ==
  LET n               == Len(BlockOrder(ver))
      score           == ScoreAfter(ver, ud.vitals, n)
      scoreComponents == ComponentsAfter(ver, ud.vitals, n)
  IN [ret   |-> Normalize(score, scoreComponents),
      debug |-> [score   |-> score,
                 max     |-> scoreComponents * 25,
                 details |-> [k \in KindsOf(ver) |-> BlockOf(k, ud.vitals)]]]

---------------------------------------------------------------------------
(* calculateHealthProgress of the legacy generation: four metrics, steps   *)
(* and water scored in proportion to the goal, no guard on a missing       *)
(* reading.                                                                *)

LegacyKinds == <<"heartRate", "steps", "sleep", "water">>

\* what one metric adds to score
legacyPoints(k, data) ==
  CASE k = "heartRate" ->
         IF data.type = "number" /\ TypeOf(data.value) = "number"
            /\ Ge(data.value, Num(60)) /\ Le(data.value, Num(100))
         THEN Num(25) ELSE Num(0)
    [] k = "sleep" ->
         IF data.type = "string" /\ TypeOf(data.value) = "string"
         THEN LET sleepHours == ParseFloat(Split(data.value.s, "h")[1])
              IN IF Ge(sleepHours, Num(7)) /\ Le(sleepHours, Num(9))
                 THEN Num(25) ELSE Num(0)
         ELSE Num(0)
    [] OTHER ->                                   \* steps, water
         IF data.type = "number" /\ TypeOf(data.value) = "number"
            /\ Truthy(data.goal)
         THEN Mul(Div(data.value, data.goal), Num(25)) ELSE Num(0)

RECURSIVE legacyScore(_, _)
legacyScore(vitals, n) ==
  IF n = 0 THEN Num(0)
  ELSE Add(legacyScore(vitals, n - 1),
           legacyPoints(LegacyKinds[n], vitals[LegacyKinds[n]]))

\* `vitals.heartRate.type` and its like read a property of undefined when a
\* reading is missing: a TypeError
calculateHealthProgressLegacy(ud) ==
  IF \E i \in 1..Len(LegacyKinds) : ~Exists(ud.vitals[LegacyKinds[i]])
  THEN [threw |-> TRUE, ret |-> Undefined]
  ELSE [threw |-> FALSE, ret |-> MathRound(legacyScore(ud.vitals, Len(LegacyKinds)))]

---------------------------------------------------------------------------
(* Readings the evaluator is run on *)

\* every threshold of the code is approached to within Spread units
Spread == 1

Around(c) == {c + d : d \in (0 - Spread)..Spread}
AroundAll(cs) == UNION {Around(c) : c \in cs}

\* defaultUserData.vitals[k]: unit, status, goal and type of each vital
DefaultUnit(k) ==
  CASE k = "heartRate" -> "BPM" [] k = "steps" -> "steps"
    [] k = "sleep" -> "hours"   [] k = "water" -> "L"
    [] k = "temperature" -> "C" [] k = "oxygenLevel" -> "%"
    [] k = "bloodPressure" -> "mmHg" [] k = "weight" -> "kg"

DefaultStatus(k) ==
  CASE k = "steps" -> "On Track" [] k = "sleep" -> "Good"
    [] k = "water" -> "Need More" [] OTHER -> "Normal"

DefaultGoal(k) ==
  CASE k = "steps" -> Num(10000) [] k = "water" -> Dec(2, 5)
    [] OTHER -> Undefined

DefaultType(k) ==
  IF k \in {"sleep", "bloodPressure"} THEN "string" ELSE "number"

\* a reading of kind k with the default unit, status, goal and type
Reading(k, value) ==
  VitalData(value, DefaultUnit(k), DefaultStatus(k), DefaultGoal(k),
            DefaultType(k))

\* vitals[key] is null
NullData == [Absent EXCEPT !.ex = "null"]

\* values no numeric rule accepts as a measurement
NotMeasured == {Undefined, Null, NaN, JsTrue, Str(<<"7", "2">>)}
NonFinite == {PosInf, NegInf}

\* "Xh Ym"
SleepStr(h, m) == DecStr(h) \o <<"h", " ">> \o DecStr(m) \o <<"m">>
\* "S/D"
BpStr(sy, di) == DecStr(sy) \o <<"/">> \o DecStr(di)

MalformedSleep ==
  {<<>>, <<" ", " ", " ">>, <<"a", "b", "c">>, <<"h", " ", "3", "0", "m">>, <<"7">>,
   <<"-", "2", "h", " ", "0", "m">>, <<" ", "8", "h", " ", "0", "m">>, <<"7", ".", "5", "h">>, <<"9", ".", "5", "h">>}

MalformedBp ==
  {<<>>, <<" ">>, <<"1", "2", "0", "/", "a", "b", "c">>, <<"a", "b", "c", "/", "8", "0">>, <<"1", "2", "0">>, <<"1", "2", "0", "/", "8", "0", "/", "7", "0">>, <<"/">>,
   <<"1", "2", "0", "/">>, <<"1", "2", "0", "/", "8", "0", "a", "b", "c">>, <<" ", "1", "2", "0", " ", "/", " ", "8", "0", " ">>, <<"-", "5", "/", "8", "0">>}

SleepHourChoices == {0} \cup AroundAll({5, 7, 9, 10, 12})
SystolicChoices == AroundAll({90, 120, 130, 140, 160})
DiastolicChoices == {60, 61, 80, 89, 90}

Values(k) ==
  CASE k = "heartRate" ->
         {Num(n) : n \in AroundAll({50, 60, 80, 100, 120}) \cup {0, 72}}
         \cup {Dec(59, 5), Dec(100, 5)} \cup NotMeasured \cup NonFinite
    [] k = "steps" ->
         {Num(n) : n \in AroundAll({2500, 3000, 5000, 7000, 7500, 9000,
                                    10000, 11000, 15000}) \cup {0, 8547}}
         \cup NotMeasured \cup NonFinite
    [] k = "water" ->
         {Rat(n, 10) : n \in AroundAll({8, 13, 18, 19, 23, 25, 30, 38, 50})
                              \cup {0, 60}}
         \cup NotMeasured \cup NonFinite
    [] k = "temperature" ->
         {Rat(n, 10) : n \in AroundAll({350, 355, 360, 361, 372, 375, 380,
                                        390}) \cup {0}}
         \cup NotMeasured \cup NonFinite
    [] k = "oxygenLevel" ->
         {Num(n) : n \in AroundAll({85, 90, 95, 100}) \cup {0}}
         \cup {Dec(94, 5)} \cup NotMeasured \cup NonFinite
    [] k = "weight" ->
         {Num(n) : n \in AroundAll({40, 45, 50, 100, 110, 120}) \cup {0, 70}}
         \cup NotMeasured \cup NonFinite
    [] k = "sleep" ->
         {Str(SleepStr(h, m)) : h \in SleepHourChoices, m \in {0, 59}}
         \cup {Str(SleepStr(7, 30))}
         \cup {Str(x) : x \in MalformedSleep}
         \cup {Num(8), Num(0), Dec(7, 5), Undefined, Null, NaN, JsTrue, PosInf}
    [] k = "bloodPressure" ->
         {Str(BpStr(sy, di)) : sy \in SystolicChoices, di \in DiastolicChoices}
         \cup {Str(BpStr(0, 0)), Str(BpStr(135, 95)), Str(BpStr(85, 55)),
               Str(BpStr(118, 76))}
         \cup {Str(x) : x \in MalformedBp}
         \cup {Num(120), Num(0), Undefined, Null, NaN, JsTrue, PosInf}

\* readings whose goal or unit differs from the default
OtherReadings(k) ==
  CASE k = "steps" ->
         {[Reading(k, Num(n)) EXCEPT !.goal = g] :
            n \in {6000, 8000, 10000}, g \in {Undefined, Num(0), NaN, Num(8000)}}
    [] k = "water" ->
         {[Reading(k, v) EXCEPT !.goal = g] :
            v \in {Dec(1, 5), Num(2), Dec(2, 5)},
            g \in {Undefined, Num(0), NaN, Num(2)}}
    [] k = "temperature" ->
         {[Reading(k, v) EXCEPT !.unit = "F"] :
            v \in {Num(94), Num(95), Num(96), Num(97), Dec(98, 6), Num(99),
                   Dec(100, 4), Dec(102, 2), Num(103)}}
         \cup {[Reading(k, Dec(36, 6)) EXCEPT !.unit = u] : u \in {"", "K"}}
    [] OTHER -> {}

\* every reading tried for kind k, a missing and a null one included
Readings(k) ==
  {Reading(k, v) : v \in Values(k)} \cup OtherReadings(k) \cup {Absent, NullData}

\* an everyday reading of kind k
Typical(k) ==
  CASE k = "heartRate" -> Reading(k, Num(72))
    [] k = "steps" -> Reading(k, Num(8547))
    [] k = "sleep" -> Reading(k, Str(SleepStr(7, 30)))
    [] k = "water" -> Reading(k, Dec(1, 8))
    [] k = "temperature" -> Reading(k, Dec(36, 6))
    [] k = "oxygenLevel" -> Reading(k, Num(98))
    [] k = "bloodPressure" -> Reading(k, Str(BpStr(118, 76)))
    [] k = "weight" -> Reading(k, Num(70))

\* the kinds of generation ver in the order its score function visits them
KindOrder(ver) == IF ver = "legacy" THEN LegacyKinds ELSE BlockOrder(ver)

\* the first n kinds of generation ver other than f
RECURSIVE FirstOthers(_, _, _, _)
FirstOthers(ver, f, n, i) ==
  IF n = 0 \/ i > Len(KindOrder(ver)) THEN {}
  ELSE IF KindOrder(ver)[i] = f THEN FirstOthers(ver, f, n, i + 1)
  ELSE {KindOrder(ver)[i]} \cup FirstOthers(ver, f, n - 1, i + 1)

\* reading r for kind f, an everyday reading for the first n other kinds and
\* no reading for the rest
VitalsWith(ver, f, r, n) ==
  LET present == FirstOthers(ver, f, n, 1)
  IN [k \in KindsOf(ver) |->
        IF k = f THEN r ELSE IF k \in present THEN Typical(k) ELSE Absent]

---------------------------------------------------------------------------
(* The state machine *)

Variants == {"steps", "weight", "legacy"}

\* the reminder and track screens before anything happened on them
NotTracked ==
  [set |-> FALSE, screen |-> "", kind |-> "", value |-> Undefined,
   status |-> ""]
\* resetForm(): no reminder is being edited
NoForm == [editing |-> 0]
\* the notification service holds nothing; next numbers its identifiers
NoNotifications == [next |-> 1, pending |-> {}]
Idle ==
  /\ tracked = NotTracked
  /\ reminders = <<>>
  /\ scheduled = NoNotifications
  /\ now = 0
  /\ form = NoForm

NoDebug == [score |-> 0, max |-> 0, details |-> <<>>]
NotShown == [set |-> FALSE, value |-> Undefined]
NoMemo ==
  [set |-> FALSE, input |-> <<>>, statuses |-> <<>>, score |-> Undefined,
   others |-> FALSE]

\* defaultUserData.vitals[k].value: a zero reading
DefaultValue(k) ==
  CASE k = "sleep" -> Str(SleepStr(0, 0))
    [] k = "bloodPressure" -> Str(BpStr(0, 0))
    [] OTHER -> Num(0)

\* defaultUserData.vitals, the record held while nothing was recorded
DefaultVitals(ver) == [k \in KindsOf(ver) |-> Reading(k, DefaultValue(k))]

\* The evaluation is entered with a vitals record of any shape its guards
\* provide for (`if (data)`, `if (vitals.sleep)`, typeof tests): one reading
\* drawn from Readings, everyday readings for a prefix of the others and
\* none for the rest.  The load path fills a missing reading with its
\* default before it stores the record; the legacy screen holds mockUserData.
\* With no health document the record is defaultUserData.vitals.
Init ==
  /\ variant \in Variants
  /\ \/ \E f \in KindsOf(variant) :
          \E r \in Readings(f), n \in 0..(Cardinality(KindsOf(variant)) - 1) :
            userData = [vitals |-> VitalsWith(variant, f, r, n),
                        healthScore |-> Num(0)]
     \/ /\ variant # "legacy"
        /\ userData = [vitals |-> DefaultVitals(variant),
                       healthScore |-> Num(0)]
  /\ debugInfo = NoDebug
  /\ pending = (variant # "legacy")
  /\ evaluated = FALSE
  /\ shown = NotShown
  /\ threw = FALSE
  /\ memo = NoMemo
  /\ vitalsRef = 0
  /\ loadedBy = "listener"
  /\ Idle

\* what an evaluation reads of the vitals: every value, unit and goal, and
\* not the stored status
InputOf(ud) ==
  [k \in DOMAIN ud.vitals |->
     [ex |-> ud.vitals[k].ex, value |-> ud.vitals[k].value,
      unit |-> ud.vitals[k].unit, goal |-> ud.vitals[k].goal]]

\* variant: a stored 'Unknown' is never replaced
statusChanged_KeepUnknown(data, newStatus) ==
  data.status # "Unknown" /\ data.status # newStatus

\* the status the effect stores for one vital: the stored one is replaced
\* when it is 'Unknown' or differs from the new one
statusChanged(data, newStatus) ==
  data.status = "Unknown" \/ data.status # newStatus

\* variant: a reading that cannot be labelled has its value reset
updatedVital_ResetUnknown(ver, ud, k) ==
  LET data == ud.vitals[k]
  IN IF Exists(data)
     THEN LET newStatus == calculateVitalStatus(ver, ud, k, data.value)
          IN IF statusChanged(data, newStatus)
             THEN [data EXCEPT !.status = newStatus,
                               !.value = IF newStatus = "Unknown"
                                         THEN Num(0) ELSE @]
             ELSE data
     ELSE data

updatedVital(ver, ud, k) ==
  LET data == ud.vitals[k]
  IN IF Exists(data)
     THEN LET newStatus == calculateVitalStatus(ver, ud, k, data.value)
          IN IF statusChanged(data, newStatus)
             THEN [data EXCEPT !.status = newStatus] ELSE data
     ELSE data

hasChanges(ver, ud) ==
  \E k \in KindsOf(ver) :
     /\ Exists(ud.vitals[k])
     /\ statusChanged(ud.vitals[k],
                      calculateVitalStatus(ver, ud, k, ud.vitals[k].value))

\* useEffect(..., [loading, userData.vitals]): recompute every status and the
\* health score; replacing userData.vitals schedules the effect again
\* variant: the effect leaves the stored score alone
storedScore_Keep(ud, calculatedScore) == ud.healthScore

\* if (userData.healthScore !== calculatedScore) setUserData(prev =>
\* ({...prev, healthScore: calculatedScore}))
storedScore(ud, calculatedScore) ==
  IF ud.healthScore # calculatedScore THEN calculatedScore ELSE ud.healthScore

StatusUpdateEffect ==
  /\ variant \in {"steps", "weight"}
  /\ pending
  /\ LET progress == calculateHealthProgress(variant, userData)
         changes  == hasChanges(variant, userData)
     IN /\ userData' =
             [vitals |-> IF changes
                         THEN [k \in KindsOf(variant) |->
                                 updatedVital(variant, userData, k)]
                         ELSE userData.vitals,
              healthScore |-> storedScore(userData, progress.ret)]
        /\ debugInfo' = progress.debug
        /\ vitalsRef' = IF changes THEN 1 - vitalsRef ELSE vitalsRef
        /\ pending' = changes
  /\ evaluated' = TRUE
  /\ memo' = IF memo.set
             THEN [memo EXCEPT !.others = @ \/ InputOf(userData) # memo.input]
             ELSE [set      |-> TRUE,
                   others   |-> FALSE,
                   input    |-> InputOf(userData),
                   statuses |-> [k \in KindsOf(variant) |->
                                   updatedVital(variant, userData, k).status],
                   score    |-> calculateHealthProgress(variant, userData).ret]
  /\ UNCHANGED <<variant, shown, threw, loadedBy>>
  /\ UNCHANGED otherVars

\* the legacy screen renders {calculateHealthProgress()}
RenderLegacy ==
  /\ variant = "legacy"
  /\ ~shown.set /\ ~threw
  /\ LET r == calculateHealthProgressLegacy(userData)
     IN /\ threw' = r.threw
        /\ shown' = IF r.threw THEN shown ELSE [set |-> TRUE, value |-> r.ret]
  /\ UNCHANGED <<variant, userData, debugInfo, pending, evaluated, memo,
                 vitalsRef, loadedBy>>
  /\ UNCHANGED otherVars

Next == StatusUpdateEffect \/ RenderLegacy

Spec == Init /\ [][Next]_vars

\* React runs an effect whose dependencies changed: a scheduled run of the
\* status-update effect is not postponed for ever
\* A run of the effect seen through the two variables every run changes: it
\* either clears the schedule or replaces the vitals object and schedules the
\* next run.  Under Next these are exactly the StatusUpdateEffect steps, and
\* the guard is the guard of StatusUpdateEffect.
EffectRuns ==
  /\ variant \in {"steps", "weight"}
  /\ pending
  /\ \/ pending' = FALSE /\ vitalsRef' = vitalsRef
     \/ pending' = TRUE /\ vitalsRef' = 1 - vitalsRef

\* React runs an effect that is scheduled
SpecFair == Spec /\ WF_<<pending, vitalsRef>>(EffectRuns)

---------------------------------------------------------------------------
(* Re-evaluation: the data store delivers one snapshot after another, each *)
(* with whatever status was stored with it, and the effect evaluates each. *)
(* memo keeps the first evaluation.                                        *)

\* readings delivered for kind k: an everyday one, one whose status is
\* 'Unknown' and one at the edge of a band
ProbeReadings(k) ==
  CASE k = "heartRate" -> {Typical(k), Reading(k, Null), Reading(k, Num(101))}
    [] k = "sleep" -> {Typical(k), Reading(k, Str(<<"a", "b", "c">>)),
                       Reading(k, Str(SleepStr(6, 59)))}
    [] OTHER -> {Typical(k), Reading(k, Str(<<"1", "2", "0">>)),
                 Reading(k, Str(BpStr(135, 95)))}

ProbeKinds == {"heartRate", "sleep", "bloodPressure"}
StoredStatuses == {"Normal", "Unknown"}

\* vitals as delivered: every stored status is st
Delivered(vitals, st) ==
  [k \in DOMAIN vitals |->
     IF Exists(vitals[k]) THEN [vitals[k] EXCEPT !.status = st] ELSE vitals[k]]

Snapshots(ver) ==
  {Delivered(VitalsWith(ver, x[1], x[2], Cardinality(KindsOf(ver)) - 1), x[3]) :
     x \in UNION {{<<f, r, st>> : r \in ProbeReadings(f), st \in StoredStatuses}
                  : f \in ProbeKinds}}

InitReeval ==
  /\ variant \in {"steps", "weight"}
  /\ \E v \in Snapshots(variant) :
       userData = [vitals |-> v, healthScore |-> Num(0)]
  /\ debugInfo = NoDebug
  /\ pending = TRUE
  /\ evaluated = FALSE
  /\ shown = NotShown
  /\ threw = FALSE
  /\ memo = NoMemo
  /\ vitalsRef = 0
  /\ loadedBy = "listener"
  /\ Idle

\* setUserData(currentData => ({...currentData, vitals: mergedVitals})) with
\* a newly fetched snapshot
LoadSnapshot ==
  /\ variant \in {"steps", "weight"}
  /\ evaluated
  /\ \E v \in Snapshots(variant) :
       userData' = [userData EXCEPT !.vitals = v]
  /\ vitalsRef' = 1 - vitalsRef
  /\ loadedBy' = "listener"
  /\ pending' = TRUE
  /\ evaluated' = FALSE
  /\ UNCHANGED <<variant, debugInfo, shown, threw, memo>>
  /\ UNCHANGED otherVars

NextReeval == StatusUpdateEffect \/ LoadSnapshot

SpecReeval == InitReeval /\ [][NextReeval]_vars

---------------------------------------------------------------------------
(* Pull to refresh, in the generation that tracks weight *)

\* the vitals of the render whose calculateHealthProgress the refresh
\* callback holds: onRefresh is memoised on currentUser alone, so it is the
\* first render (defaultUserData) or a later one
ClosureVitals == {DefaultVitals("weight"), userData.vitals}

\* onRefresh, loadHealthData: setUserData(currentData => ({...currentData,
\* vitals: mergedVitals, healthScore: calculateHealthProgress()}))
Refresh ==
  /\ variant = "weight"
  /\ evaluated
  /\ \E v \in Snapshots(variant), c \in ClosureVitals :
       userData' =
         [vitals |-> v,
          healthScore |->
            calculateHealthProgress(variant, [userData EXCEPT !.vitals = c]).ret]
  /\ vitalsRef' = 1 - vitalsRef
  /\ loadedBy' = "refresh"
  /\ pending' = TRUE
  /\ evaluated' = FALSE
  /\ UNCHANGED <<variant, debugInfo, shown, threw, memo>>
  /\ UNCHANGED otherVars

NextRefresh == StatusUpdateEffect \/ Refresh

SpecRefresh == InitReeval /\ [][NextRefresh]_vars

---------------------------------------------------------------------------
(* The track screen: a reading typed into the form is labelled by            *)
(* getVitalStatus and written to the data store with that label.  The        *)
(* screen exists with fixed thresholds and with thresholds read from         *)
(* vitalConfigs.                                                             *)

TrackScreens == {"fixed", "configured"}
TrackKinds == {"heartRate", "bloodPressure", "temperature", "oxygenLevel"}

\* getVitalStatus(type, value) of the screen with fixed thresholds
getVitalStatus(type, value) ==
  CASE type = "heartRate" ->
         IF Lt(value, Num(60)) THEN "Low"
         ELSE IF Gt(value, Num(100)) THEN "High" ELSE "Normal"
    [] type = "bloodPressure" ->
         IF Lt(value, Num(90)) THEN "Low"
         ELSE IF Gt(value, Num(140)) THEN "High" ELSE "Normal"
    [] type = "temperature" ->
         IF Lt(value, Dec(36, 1)) THEN "Low"
         ELSE IF Gt(value, Dec(37, 2)) THEN "High" ELSE "Normal"
    [] type = "oxygenLevel" ->
         IF Lt(value, Num(95)) THEN "Low"
         ELSE IF Gt(value, Num(100)) THEN "Invalid" ELSE "Normal"
    [] OTHER -> "Unknown"

\* defaultVitalConfigs[type]: type and ranges
defaultVitalConfigs(type) ==
  CASE type = "heartRate" ->
         [type |-> "number", low |-> Num(60), high |-> Num(100),
          optimal |-> Num(80)]
    [] type = "bloodPressure" ->
         [type |-> "string", low |-> Num(90), high |-> Num(140),
          optimal |-> Num(120)]
    [] type = "temperature" ->
         [type |-> "number", low |-> Dec(36, 1), high |-> Dec(37, 2),
          optimal |-> Dec(36, 6)]
    [] type = "oxygenLevel" ->
         [type |-> "number", low |-> Num(95), high |-> Num(100),
          optimal |-> Num(98)]

\* Math.abs(a - b) < 0.1
NearOptimal(a, b) ==
  /\ a.t = "num" /\ b.t = "num"
  /\ Lt(Add(a, Mul(Num(-1), b)), Dec(0, 1))
  /\ Lt(Add(b, Mul(Num(-1), a)), Dec(0, 1))

\* Number(s) for the strings entered here: blanks around decimal digits, the
\* empty string is 0, anything else is NaN
ToNumber(s) ==
  LET t == Trim(s)
  IN IF Len(t) = 0 THEN Num(0)
     ELSE IF DigitPrefix(t) = t THEN Num(DigitsValue(t))
     ELSE NaN

\* the three range tests of the configured getVitalStatus, "" when none
\* returns
rangeStatus(ranges, n) ==
  IF Truthy(ranges.low) /\ Lt(n, ranges.low) THEN "Low"
  ELSE IF Truthy(ranges.high) /\ Gt(n, ranges.high) THEN "High"
  ELSE IF Truthy(ranges.optimal) /\ NearOptimal(n, ranges.optimal)
  THEN "Optimal"
  ELSE ""

\* getVitalStatus(type, value) of the screen with vitalConfigs
getVitalStatusByConfig(type, value) ==
  IF type \notin TrackKinds THEN "Unknown"
  ELSE LET ranges == defaultVitalConfigs(type)
       IN IF TypeOf(value) = "string"
          THEN IF type = "bloodPressure"
               THEN LET systolic == ToNumber(Split(value.s, "/")[1])
                    IN IF IsNaN(systolic) THEN "Unknown"
                       ELSE IF rangeStatus(ranges, systolic) # ""
                       THEN rangeStatus(ranges, systolic)
                       ELSE "Unknown"
               ELSE "Unknown"
          ELSE IF TypeOf(value) = "number"
          THEN IF rangeStatus(ranges, value) # ""
               THEN rangeStatus(ranges, value) ELSE "Normal"
          ELSE "Unknown"

\* tenths as the text "w.d"
TenthsStr(n) == DecStr(n \div 10) \o <<".">> \o DecStr(n % 10)

\* texts typed into the form for a vital
FormTexts(type) ==
  CASE type = "heartRate" ->
         {DecStr(n) : n \in AroundAll({50, 60, 80, 100, 120}) \cup {0, 72}}
    [] type = "temperature" ->
         {TenthsStr(n) : n \in AroundAll({350, 360, 361, 366, 372, 375, 380})}
    [] type = "oxygenLevel" ->
         {DecStr(n) : n \in AroundAll({85, 90, 95, 98, 100})}
    [] type = "bloodPressure" ->
         {DecStr(n) : n \in AroundAll({90, 120, 140})}
         \cup {BpStr(120, 80), BpStr(85, 55), BpStr(150, 95)}

\* texts the form rejects or reads only in part
OddTexts == {<<>>, <<"a", "b", "c">>, <<"7", "2", "b", "p", "m">>}

\* handleUpdateVital and updateVital: the text is parsed where the vital is
\* numeric, rejected when empty or not a number, and stored with the label
\* of getVitalStatus
handleUpdateVital(screen, selectedVital, newValue) ==
  LET asNumber == \/ screen = "fixed"
                  \/ defaultVitalConfigs(selectedVital).type = "number"
      value    == IF asNumber THEN ParseFloat(newValue) ELSE Str(newValue)
      status   == IF screen = "fixed"
                  THEN getVitalStatus(selectedVital, value)
                  ELSE getVitalStatusByConfig(selectedVital, value)
  IN /\ Len(newValue) > 0
     /\ asNumber => ~IsNaN(value)
     /\ tracked' = [set |-> TRUE, screen |-> screen, kind |-> selectedVital,
                    value |-> value, status |-> status]
     /\ UNCHANGED <<variant, userData, debugInfo, pending, evaluated, shown,
                    threw, memo, vitalsRef, loadedBy, reminders, scheduled,
                    now, form>>

UpdateVital ==
  \E screen \in TrackScreens, selectedVital \in TrackKinds :
    \E newValue \in FormTexts(selectedVital) \cup OddTexts :
      handleUpdateVital(screen, selectedVital, newValue)

\* the home screen holds the default record while the track screen is used
InitTrack ==
  /\ variant \in {"steps", "weight"}
  /\ userData = [vitals |-> DefaultVitals(variant), healthScore |-> Num(0)]
  /\ debugInfo = NoDebug
  /\ pending = FALSE
  /\ evaluated = FALSE
  /\ shown = NotShown
  /\ threw = FALSE
  /\ memo = NoMemo
  /\ vitalsRef = 0
  /\ loadedBy = "listener"
  /\ Idle

SpecTrack == InitTrack /\ [][UpdateVital]_vars

---------------------------------------------------------------------------
(* Reminders: the form of the reminders screen saves into the data store     *)
(* and schedules one notification; the home screen fetches the upcoming      *)
(* reminders and schedules their advance notifications.  Time is counted in  *)
(* minutes, a date is a day number.                                          *)

MaxReminders == 1
MaxNotifications == 3
TickMinutes == 300
MaxNow == 900
DayMinutes == 1440

ReminderTypes == {"appointment", "medication", "exercise", "water", "other"}
\* title.trim() of what the form holds
Titles == {"", "pill"}
Dates == {0, 1}
\* "07:00" and "14:00"
Times == {420, 840}

\* a document id of the reminders collection, an identifier of the
\* notification service
ReminderId(i) == <<"reminder", i>>
NotificationId(k) == <<"notification", k>>

\* eventTime: the reminder's date with setHours(hours, minutes, 0, 0)
eventTime(reminder) == reminder.date * DayMinutes + reminder.time

\* Notifications.cancelScheduledNotificationAsync(identifier)
cancelScheduledNotificationAsync(service, identifier) ==
  [service EXCEPT !.pending = {n \in @ : n.identifier # identifier}]

\* Notifications.scheduleNotificationAsync({content, trigger: {date}}): the
\* request names no identifier, the service assigns one
scheduleNotificationAsync(service, reminderId, date, by, clock) ==
  [next    |-> service.next + 1,
   pending |-> service.pending \cup
                 {[identifier |-> NotificationId(service.next),
                   reminderId |-> reminderId, date |-> date, by |-> by,
                   scheduledAt |-> clock]}]

\* scheduleNotification(reminder) of the reminders screen
scheduleNotification(service, reminder, clock) ==
  IF ~reminder.notificationEnabled THEN service
  ELSE scheduleNotificationAsync(
         cancelScheduledNotificationAsync(service, reminder.id),
         reminder.id, eventTime(reminder), "scheduleNotification", clock)

\* the sequence with x appended when cond holds
PushIf(seq, cond, x) == IF cond THEN Append(seq, x) ELSE seq

\* 9, 12, 15 and 18 o'clock of the reminder's day
waterReminders(reminder) ==
  [i \in 1..4 |-> reminder.date * DayMinutes + (6 + 3 * i) * 60]

\* notificationTimes of scheduleNotifications(reminder) at instant clock
notificationTimes(reminder, clock) ==
  LET ev     == eventTime(reminder)
      byType ==
        CASE reminder.type = "appointment" ->
               LET dayStart == reminder.date * DayMinutes + 8 * 60
               IN PushIf(PushIf(<<>>, dayStart < ev, dayStart),
                         ev - 6 * 60 > clock, ev - 6 * 60)
          [] reminder.type = "medication" ->
               PushIf(<<>>, ev - 60 > clock, ev - 60)
          [] reminder.type = "exercise" ->
               PushIf(PushIf(<<>>, ev - 2 * 60 > clock, ev - 2 * 60),
                      ev - 60 > clock, ev - 60)
          [] reminder.type = "water" ->
               LET w == waterReminders(reminder)
               IN PushIf(PushIf(PushIf(PushIf(<<>>, w[1] > clock, w[1]),
                                       w[2] > clock, w[2]),
                                w[3] > clock, w[3]),
                         w[4] > clock, w[4])
          [] OTHER ->
               PushIf(<<>>, ev - 60 > clock, ev - 60)
  IN PushIf(byType, reminder.type # "water" /\ ev - 15 > clock, ev - 15)

\* for (const notification of notificationTimes) scheduleNotificationAsync
RECURSIVE scheduleEach(_, _, _, _)
scheduleEach(service, reminderId, times, clock) ==
  IF Len(times) = 0 THEN service
  ELSE scheduleEach(
         scheduleNotificationAsync(service, reminderId, Head(times),
                                   "scheduleNotifications", clock),
         reminderId, Tail(times), clock)

\* scheduleNotifications(reminder) of the home screen
scheduleNotifications(service, reminder, clock) ==
  scheduleEach(cancelScheduledNotificationAsync(service, reminder.id),
               reminder.id, notificationTimes(reminder, clock), clock)

\* the documents fetchUpcomingReminders passes to scheduleNotifications, in
\* order: date >= today 00:00, not completed
RECURSIVE fetchEach(_, _, _)
fetchEach(service, docs, clock) ==
  IF Len(docs) = 0 THEN service
  ELSE LET reminder == Head(docs)
           wanted   == /\ reminder.date * DayMinutes
                            >= (clock \div DayMinutes) * DayMinutes
                       /\ ~reminder.isCompleted
       IN fetchEach(IF wanted
                    THEN scheduleNotifications(service, reminder, clock)
                    ELSE service,
                    Tail(docs), clock)

\* fetchUpcomingReminders(uid)
fetchUpcomingReminders ==
  /\ fetchEach(scheduled, reminders, now).next <= MaxNotifications + 1
  /\ scheduled' = fetchEach(scheduled, reminders, now)
  /\ UNCHANGED <<reminders, now, form>>

\* handleAddReminder(): the form holds title, date, time, type and
\* notificationEnabled when it is saved
handleAddReminder(title, date, time, type, notificationEnabled) ==
  LET reminderData ==
        [title |-> title, date |-> date, time |-> time, type |-> type,
         isCompleted |-> FALSE, notificationEnabled |-> notificationEnabled,
         createdAt |-> now]
      index == IF form.editing # 0 THEN form.editing ELSE Len(reminders) + 1
      saved == [id |-> ReminderId(index)] @@ reminderData
  IN /\ title # ""
     /\ index <= MaxReminders
     /\ scheduled.next <= MaxNotifications
     /\ reminders' = IF form.editing # 0
                     THEN [reminders EXCEPT ![index] = saved]
                     ELSE Append(reminders, saved)
     /\ scheduled' = scheduleNotification(scheduled, saved, now)
     /\ form' = NoForm
     /\ UNCHANGED now

SaveReminder ==
  \E title \in Titles, date \in Dates, time \in Times, type \in ReminderTypes,
     notificationEnabled \in BOOLEAN :
    handleAddReminder(title, date, time, type, notificationEnabled)

\* handleEditReminder(reminder)
handleEditReminder ==
  /\ form.editing = 0
  /\ \E i \in 1..Len(reminders) : form' = [editing |-> i]
  /\ UNCHANGED <<reminders, scheduled, now>>

\* handleToggleComplete(reminder)
handleToggleComplete ==
  /\ \E i \in 1..Len(reminders) :
       reminders' = [reminders EXCEPT ![i].isCompleted = ~@]
  /\ UNCHANGED <<scheduled, now, form>>

\* time passes; the service delivers what has come due
Tick ==
  /\ now < MaxNow
  /\ now' = now + TickMinutes
  /\ scheduled' = [scheduled EXCEPT
                     !.pending = {n \in @ : n.date > now + TickMinutes}]
  /\ UNCHANGED <<reminders, form>>

homeVars ==
  <<variant, userData, debugInfo, pending, evaluated, shown, threw, memo,
    vitalsRef, loadedBy, tracked>>

NextReminders ==
  \/ SaveReminder /\ UNCHANGED homeVars
  \/ handleEditReminder /\ UNCHANGED homeVars
  \/ handleToggleComplete /\ UNCHANGED homeVars
  \/ fetchUpcomingReminders /\ UNCHANGED homeVars
  \/ Tick /\ UNCHANGED homeVars

\* the home screen of the generation that schedules notifications holds the
\* default record
InitReminders == InitTrack /\ variant = "weight"

SpecReminders == InitReminders /\ [][NextReminders]_vars

---------------------------------------------------------------------------
(* Properties *)

\* the label stored for kind k once the effect has run
StatusAt(k) == userData.vitals[k].status
\* whether calculateHealthProgress counted kind k (scoreComponents++)
ScoredAt(k) == debugInfo.details[k].scored
PointsAt(k) == debugInfo.details[k].points

ScoredKinds == {k \in KindsOf(variant) : ScoredAt(k)}

RECURSIVE SumPoints(_)
SumPoints(ks) ==
  IF ks = {} THEN 0
  ELSE LET k == CHOOSE x \in ks : TRUE IN PointsAt(k) + SumPoints(ks \ {k})

\* C1: the score returned is round(totalScore / (countScored * 25) * 100)
\* over the metrics that were scored, and 0 when none was (in particular
\* when there is no reading at all).
C1_NormalizedOverScored ==
  evaluated =>
    LET countScored == Cardinality(ScoredKinds)
        totalScore  == SumPoints(ScoredKinds)
    IN /\ debugInfo.score = totalScore
       /\ debugInfo.max = countScored * 25
       /\ userData.healthScore =
            IF countScored = 0 THEN Num(0)
            ELSE Num((8 * totalScore + countScored) \div (2 * countScored))

\* several metrics scored, some skipped, and the quotient needs rounding
C1_Witness ==
  /\ evaluated
  /\ Cardinality(ScoredKinds) \in 2..(Cardinality(KindsOf(variant)) - 1)
  /\ (4 * SumPoints(ScoredKinds)) % Cardinality(ScoredKinds) # 0

\* C2: the wellness score is an integer between 0 and 100.
C2_ScoreInRange ==
  evaluated =>
    /\ userData.healthScore.t = "num"
    /\ userData.healthScore.q = 1
    /\ userData.healthScore.p \in 0..100

C2_Witness ==
  /\ evaluated
  /\ userData.healthScore = Num(100)
  /\ \E k \in KindsOf(variant) : Exists(userData.vitals[k]) /\ ~ScoredAt(k)

\* C3: a reading whose value is null, undefined or NaN is labelled
\* "Unknown" and is not counted in the score denominator, whatever its kind.
C3_MissingValueUnknownAndSkipped ==
  evaluated =>
    \A k \in KindsOf(variant) :
      (Exists(userData.vitals[k])
         /\ userData.vitals[k].value \in {Null, Undefined, NaN})
      => (StatusAt(k) = "Unknown" /\ ~ScoredAt(k))

C3_Witness ==
  /\ evaluated
  /\ \E k \in KindsOf(variant) :
       /\ Exists(userData.vitals[k]) /\ userData.vitals[k].value = NaN
       /\ StatusAt(k) = "Unknown"
  /\ debugInfo.max > 0

\* C4: a reading whose value is non-finite or an unparseable composite
\* string is labelled "Unknown" and not scored, and no reading is labelled
\* "Unknown" and scored all the same.
C4_UnknownNeverScored ==
  evaluated =>
    \A k \in KindsOf(variant) :
      Exists(userData.vitals[k]) =>
        /\ userData.vitals[k].value \in NonFinite
             => (StatusAt(k) = "Unknown" /\ ~ScoredAt(k))
        /\ StatusAt(k) = "Unknown" => ~ScoredAt(k)

\* blood pressure "120/abc" is labelled "Unknown" and scored 20 points on
\* its systolic part
C4_Failing ==
  /\ evaluated
  /\ userData.vitals["bloodPressure"].value
       = Str(<<"1", "2", "0", "/", "a", "b", "c">>)
  /\ StatusAt("bloodPressure") = "Unknown"
  /\ ScoredAt("bloodPressure") /\ PointsAt("bloodPressure") = 20

\* C5: every reading whose label is not "Unknown" is counted in the score,
\* sleep "0h 0m" and a blood pressure with systolic 0 included.
C5_LabelledIsScored ==
  evaluated =>
    \A k \in KindsOf(variant) :
      (Exists(userData.vitals[k]) /\ StatusAt(k) # "Unknown") => ScoredAt(k)

\* sleep "0h 0m" is labelled "Not Enough" and left out of the score
C5_Failing ==
  /\ evaluated
  /\ userData.vitals["sleep"].value = Str(<<"0", "h", " ", "0", "m">>)
  /\ StatusAt("sleep") = "Not Enough"
  /\ ~ScoredAt("sleep")

\* C6: evaluating the reading set of the first evaluation again gives the
\* labels and the score of the first evaluation, whatever was evaluated in
\* between and whatever status and healthScore were stored.
C6_SameInputSameResult ==
  (evaluated /\ memo.set /\ InputOf(userData) = memo.input) =>
    /\ \A k \in KindsOf(variant) : StatusAt(k) = memo.statuses[k]
    /\ userData.healthScore = memo.score

\* the first reading set evaluated again after a different one, with a
\* label that was computed and not merely delivered
C6_Witness ==
  /\ evaluated /\ memo.set /\ memo.others
  /\ InputOf(userData) = memo.input
  /\ \E k \in KindsOf(variant) :
       Exists(userData.vitals[k]) /\ StatusAt(k) \notin StoredStatuses
  /\ userData.healthScore # Num(0)

IsScenario ==
  /\ variant = "steps"
  /\ \A k \in KindsOf(variant) :
       Exists(userData.vitals[k])
         <=> k \in {"heartRate", "steps", "sleep", "water"}
  /\ userData.vitals["heartRate"].value = Num(72)
  /\ userData.vitals["steps"].value = Num(8547)
  /\ userData.vitals["steps"].goal = Num(10000)
  /\ userData.vitals["sleep"].value
       = Str(<<"7", "h", " ", "3", "0", "m">>)
  /\ userData.vitals["water"].value = Rat(18, 10)
  /\ userData.vitals["water"].goal = Rat(25, 10)

\* what the evaluation of the scenario gives apart from the water label
ScenarioRest ==
  /\ StatusAt("heartRate") = "Normal"
  /\ StatusAt("steps") = "Almost There"
  /\ StatusAt("sleep") = "Good"
  /\ ScoredKinds = {"heartRate", "steps", "sleep", "water"}
  /\ debugInfo.max = 4 * 25
  /\ userData.healthScore.t = "num"
  /\ userData.healthScore.p > 0 /\ userData.healthScore.p < 100

C9_HeartRateBands ==
  evaluated =>
    LET data == userData.vitals["heartRate"]
        h    == data.value
    IN (Exists(data) /\ h.t \in {"num", "inf", "ninf"}) =>
         /\ StatusAt("heartRate") =
              IF h.t = "ninf" \/ (h.t = "num" /\ h.p < 60 * h.q) THEN "Low"
              ELSE IF h.t = "inf" \/ (h.t = "num" /\ h.p > 100 * h.q)
                   THEN "High"
              ELSE "Normal"
         /\ h \in {Num(60), Num(100)} => StatusAt("heartRate") = "Normal"
         /\ h = Num(59) => StatusAt("heartRate") = "Low"
         /\ h = Num(101) => StatusAt("heartRate") = "High"

C9_Witness ==
  /\ evaluated
  /\ userData.vitals["heartRate"].value = Num(100)
  /\ StatusAt("heartRate") = "Normal"

\* the number of "/" in s
RECURSIVE SlashCount(_)
SlashCount(s) ==
  IF Len(s) = 0 THEN 0
  ELSE (IF Head(s) = "/" THEN 1 ELSE 0) + SlashCount(Tail(s))

\* a part counts as numeric when, after leading blanks and an optional sign,
\* it starts with a digit; what follows the digits is not looked at
StartsWithInteger(part) ==
  LET t == TrimStart(part)
  IN \/ Len(t) >= 1 /\ t[1] \in Digits
     \/ Len(t) >= 2 /\ t[1] \in {"-", "+"} /\ t[2] \in Digits

\* whether s is two numeric parts around a single "/"
TwoNumericParts(s) ==
  /\ SlashCount(s) = 1
  /\ LET i == CHOOSE j \in 1..Len(s) : s[j] = "/"
     IN /\ StartsWithInteger(SubSeq(s, 1, i - 1))
        /\ StartsWithInteger(SubSeq(s, i + 1, Len(s)))

BpLabel(sy, di) ==
  IF sy >= 140 \/ di >= 90 THEN "High"
  ELSE IF sy <= 90 \/ di <= 60 THEN "Low"
  ELSE "Normal"

SleepMinuteChoices == {0, 30, 59}

SleepLabel(x) ==
  IF x >= 7 /\ x <= 9 THEN "Good"
  ELSE IF x > 9 THEN "Too Much"
  ELSE "Not Enough"

\* C11: for a sleep string "Xh Ym" the label is "Good" for X in 7..9, "Too
\* Much" for X > 9 and "Not Enough" for X < 7, and label and component score
\* are those of "Xh 0m": the minutes are discarded.  An empty or blank
\* string is "Unknown".
C11_SleepByWholeHours ==
  evaluated =>
    LET data == userData.vitals["sleep"]
    IN (Exists(data) /\ TypeOf(data.value) = "string") =>
         /\ \A x \in SleepHourChoices, y \in SleepMinuteChoices :
              data.value.s = SleepStr(x, y) =>
                /\ StatusAt("sleep") = SleepLabel(x)
                /\ debugInfo.details["sleep"]
                     = sleepBlock([sleep |-> Reading("sleep", Str(SleepStr(x, 0)))])
         /\ data.value.s = <<"7", "h", " ", "0", "m">>
              => StatusAt("sleep") = "Good"
         /\ data.value.s = <<"6", "h", " ", "5", "9", "m">>
              => StatusAt("sleep") = "Not Enough"
         /\ data.value.s = <<"1", "0", "h", " ", "0", "m">>
              => StatusAt("sleep") = "Too Much"
         /\ (\A i \in 1..Len(data.value.s) : data.value.s[i] = " ")
              => StatusAt("sleep") = "Unknown"

\* nine hours and fifty-nine minutes count as nine hours
C11_Witness ==
  /\ evaluated
  /\ userData.vitals["sleep"].value = Str(SleepStr(9, 59))
  /\ StatusAt("sleep") = "Good"
  /\ PointsAt("sleep") = 22

\* the goal a goal-relative metric is measured against: the stored one, or
\* the fallback when none is stored or it is zero (or NaN)
EffectiveGoal(data, fallback) ==
  IF data.goal \in {Undefined, Null, Num(0), NaN} THEN fallback ELSE data.goal

\* v / g * 100 >= t for finite v and finite positive g, in integers
PercentAtLeast(v, g, t) == 100 * v.p * g.q >= t * v.q * g.p

StepsLabel(v, g) ==
  IF PercentAtLeast(v, g, 100) THEN "Achieved"
  ELSE IF PercentAtLeast(v, g, 75) THEN "Almost There"
  ELSE IF PercentAtLeast(v, g, 50) THEN "On Track"
  ELSE IF PercentAtLeast(v, g, 25) THEN "Getting Started"
  ELSE "Need More"

\* C12: a numeric step count v against goal g (10000 when no goal is stored
\* or it is zero) is "Achieved" from 100% of g, "Almost There" from 75%, "On
\* Track" from 50%, "Getting Started" from 25% and "Need More" below; the
\* steps component is scored against the same g.
C12_StepsBands ==
  (evaluated /\ variant = "steps") =>
    LET data == userData.vitals["steps"]
        g    == EffectiveGoal(data, Num(10000))
    IN (Exists(data) /\ data.value.t = "num" /\ g.t = "num" /\ g.p > 0) =>
         /\ StatusAt("steps") = StepsLabel(data.value, g)
         /\ debugInfo.details["steps"] = Scored(stepsScore(data.value, g))

\* no goal stored: 8000 steps are 80% of the default goal
C12_Witness ==
  /\ evaluated /\ variant = "steps"
  /\ userData.vitals["steps"].goal = Undefined
  /\ userData.vitals["steps"].value = Num(8000)
  /\ StatusAt("steps") = "Almost There"
  /\ PointsAt("steps") = 20

WaterLabel(v, g) ==
  IF PercentAtLeast(v, g, 100) THEN "Hydrated"
  ELSE IF PercentAtLeast(v, g, 75) THEN "Almost There"
  ELSE IF PercentAtLeast(v, g, 50) THEN "Halfway"
  ELSE "Need More"

\* C13: a numeric water intake v against goal g (2.5 when no goal is stored
\* or it is zero) is "Hydrated" from 100% of g, "Almost There" from 75%,
\* "Halfway" from 50% and "Need More" below.
C13_WaterBands ==
  evaluated =>
    LET data == userData.vitals["water"]
        g    == EffectiveGoal(data, Rat(25, 10))
    IN (Exists(data) /\ data.value.t = "num" /\ g.t = "num" /\ g.p > 0) =>
         StatusAt("water") = WaterLabel(data.value, g)

\* no goal stored: two litres are 80% of the default goal
C13_Witness ==
  /\ evaluated
  /\ userData.vitals["water"].goal = Undefined
  /\ userData.vitals["water"].value = Num(2)
  /\ StatusAt("water") = "Almost There"

\* C14: an intake strictly above twice the goal scores 5 of 25, below the 25
\* scored by an intake equal to the goal: the water component is not
\* monotone in the intake and not capped at its maximum.
C14_WaterExcessPenalised ==
  evaluated =>
    LET data == userData.vitals["water"]
        v    == data.value
        g    == EffectiveGoal(data, Rat(25, 10))
    IN (Exists(data) /\ v.t = "num" /\ g.t = "num" /\ g.p > 0) =>
         /\ v.p * g.q > 2 * g.p * v.q
              => debugInfo.details["water"] = Scored(5)
         /\ v = g => debugInfo.details["water"] = Scored(25)
         /\ (v = Num(6) /\ g = Rat(25, 10)) => PointsAt("water") = 5

\* six litres against a goal of two and a half
C14_Witness ==
  /\ evaluated
  /\ userData.vitals["water"].value = Num(6)
  /\ userData.vitals["water"].goal = Rat(25, 10)
  /\ ScoredAt("water") /\ PointsAt("water") = 5

\* C15: a numeric temperature t in degrees Celsius is "Low" when t < 36,
\* "High" when t > 37.5 and "Normal" otherwise; 36 and 37.5 are "Normal".
C15_TemperatureBands ==
  evaluated =>
    LET data == userData.vitals["temperature"]
        t    == data.value
    IN (Exists(data) /\ data.unit = "C" /\ t.t \in {"num", "inf", "ninf"}) =>
         /\ StatusAt("temperature") =
              IF t.t = "ninf" \/ (t.t = "num" /\ t.p < 36 * t.q) THEN "Low"
              ELSE IF t.t = "inf" \/ (t.t = "num" /\ 2 * t.p > 75 * t.q)
                   THEN "High"
              ELSE "Normal"
         /\ t \in {Num(36), Rat(75, 2)} => StatusAt("temperature") = "Normal"

C15_Witness ==
  /\ evaluated
  /\ userData.vitals["temperature"].unit = "C"
  /\ userData.vitals["temperature"].value = Rat(75, 2)
  /\ StatusAt("temperature") = "Normal"

\* C16: a numeric oxygen saturation o is "Low" when o < 95 and "Normal"
\* otherwise, above 100 included; a reading above 100 is counted in the
\* score denominator and contributes 0 points.
C16_OxygenBands ==
  evaluated =>
    LET data == userData.vitals["oxygenLevel"]
        o    == data.value
    IN (Exists(data) /\ o.t \in {"num", "inf", "ninf"}) =>
         LET below95  == o.t = "ninf" \/ (o.t = "num" /\ o.p < 95 * o.q)
             above100 == o.t = "inf" \/ (o.t = "num" /\ o.p > 100 * o.q)
         IN /\ StatusAt("oxygenLevel") = IF below95 THEN "Low" ELSE "Normal"
            /\ above100 =>
                 /\ StatusAt("oxygenLevel") = "Normal"
                 /\ debugInfo.details["oxygenLevel"] = Scored(0)

C16_Witness ==
  /\ evaluated
  /\ userData.vitals["oxygenLevel"].value = Num(101)
  /\ StatusAt("oxygenLevel") = "Normal"
  /\ ScoredAt("oxygenLevel") /\ PointsAt("oxygenLevel") = 0

\* C17: every component score is between 0 and 25, so the accumulated total
\* never exceeds 25 times the number of scored metrics.
C17_ComponentWithinBounds ==
  evaluated =>
    /\ \A k \in KindsOf(variant) :
         /\ PointsAt(k) \in 0..25
         /\ ~ScoredAt(k) => PointsAt(k) = 0
    /\ debugInfo.score <= 25 * Cardinality(ScoredKinds)
    /\ debugInfo.score <= debugInfo.max

\* a full component and an empty one among at least three scored
C17_Witness ==
  /\ evaluated
  /\ Cardinality(ScoredKinds) >= 3
  /\ \E k, j \in ScoredKinds : PointsAt(k) = 25 /\ PointsAt(j) = 0

HeartRatePoints(h) ==
  IF 60 <= h /\ h <= 80 THEN 25
  ELSE IF 81 <= h /\ h <= 100 THEN 20
  ELSE IF 101 <= h /\ h <= 120 THEN 10
  ELSE IF h > 120 THEN 0
  ELSE IF 50 <= h /\ h <= 59 THEN 15
  ELSE 0

\* C18: a scored integer heart rate h contributes 25 for 60..80, 20 for
\* 81..100, 10 for 101..120, 0 above 120, 15 for 50..59 and 0 below 50.
C18_HeartRateComponent ==
  evaluated =>
    LET h == userData.vitals["heartRate"].value
    IN (ScoredAt("heartRate") /\ h.t = "num" /\ h.q = 1) =>
         PointsAt("heartRate") = HeartRatePoints(h.p)

C18_Witness ==
  /\ evaluated
  /\ userData.vitals["heartRate"].value = Num(120)
  /\ ScoredAt("heartRate") /\ PointsAt("heartRate") = 10

OxygenPoints(o) ==
  IF 95 <= o /\ o <= 100 THEN 25
  ELSE IF 90 <= o /\ o <= 94 THEN 15
  ELSE IF 85 <= o /\ o <= 89 THEN 5
  ELSE 0

\* C19: a scored integer oxygen saturation o contributes 25 for 95..100, 15
\* for 90..94, 5 for 85..89 and 0 below 85.
C19_OxygenComponent ==
  evaluated =>
    LET o == userData.vitals["oxygenLevel"].value
    IN (ScoredAt("oxygenLevel") /\ o.t = "num" /\ o.q = 1 /\ o.p <= 100) =>
         PointsAt("oxygenLevel") = OxygenPoints(o.p)

C19_Witness ==
  /\ evaluated
  /\ userData.vitals["oxygenLevel"].value = Num(90)
  /\ ScoredAt("oxygenLevel") /\ PointsAt("oxygenLevel") = 15

\* C20: no step changes a reading: every vital keeps its value, unit, goal
\* and type, and a reading neither appears nor disappears; only the status
\* of a vital and the healthScore change.
C20_ReadingsNotMutated ==
  [][\A k \in DOMAIN userData.vitals :
       userData'.vitals[k]
         = [userData.vitals[k] EXCEPT !.status = userData'.vitals[k].status]]_vars

\* the effect has replaced a status and the score, and the readings are
\* those of its first run
C20_Witness ==
  /\ evaluated /\ ~pending
  /\ InputOf(userData) = memo.input
  /\ userData.healthScore # Num(0)
  /\ \E k \in KindsOf(variant) :
       Exists(userData.vitals[k]) /\ StatusAt(k) # DefaultStatus(k)

\* the kinds whose values are strings; every other kind has a numeric rule
StringKinds == {"sleep", "bloodPressure"}

\* C21: a value whose type has no rule for its kind is labelled by type: a
\* number other than NaN given for sleep or blood pressure is "Normal", a
\* non-empty string given for a numeric kind is "Unknown".
C21_FallbackByType ==
  evaluated =>
    \A k \in KindsOf(variant) :
      LET data == userData.vitals[k]
      IN Exists(data) =>
           /\ (k \in StringKinds /\ data.value.t \in {"num", "inf", "ninf"})
                => StatusAt(k) = "Normal"
           /\ (k \notin StringKinds /\ data.value.t = "string"
                 /\ Len(data.value.s) > 0)
                => StatusAt(k) = "Unknown"

\* sleep given as the number 8, delivered with the status "Good"
C21_Witness ==
  /\ evaluated
  /\ userData.vitals["sleep"].value = Num(8)
  /\ StatusAt("sleep") = "Normal"

\* a finite number that is not negative
NonNegative(v) == v.t = "num" /\ v.p >= 0

Settled ==
  variant \in {"steps", "weight"} =>
    /\ \A k \in KindsOf(variant) :
         Exists(userData.vitals[k]) =>
           StatusAt(k) = calculateVitalStatus(variant, userData, k,
                                              userData.vitals[k].value)
    /\ userData.healthScore = calculateHealthProgress(variant, userData).ret

\* C23: after a snapshot is loaded the status-update effect runs finitely
\* often and then schedules no further run, also when a vital evaluates to
\* "Unknown"; from then on the stored statuses and the healthScore are the
\* computed ones.
C23_EffectSettles == <>[](~pending /\ Settled)

\* statuses and score are the computed ones, one status is "Unknown", and
\* the effect has replaced the vitals object and is scheduled again
C23_Failing ==
  /\ evaluated /\ pending /\ Settled
  /\ \E k \in KindsOf(variant) :
       Exists(userData.vitals[k]) /\ StatusAt(k) = "Unknown"
  /\ vitalsRef = 0

\* nothing was recorded: the vitals are defaultUserData.vitals
NoRecordedVitals ==
  variant \in {"steps", "weight"} /\ InputOf(userData) = InputOf([vitals |-> DefaultVitals(variant)])

\* C25: with no recorded vitals the health score shown once the effect has
\* settled is 0.
C25_DefaultsScoreZero ==
  (NoRecordedVitals /\ evaluated /\ ~pending) => userData.healthScore = Num(0)

\* the defaults of the generation that counts steps settle at a score of 8
C25_Failing ==
  /\ NoRecordedVitals /\ evaluated /\ ~pending /\ Settled
  /\ variant = "steps"
  /\ userData.healthScore = Num(8)
\* the value is "S/D" with positive integers S and D
PositiveBp(value) ==
  \E sy \in SystolicChoices \cup {85, 118, 135},
     di \in DiastolicChoices \cup {55, 76, 95} :
    sy > 0 /\ di > 0 /\ value = Str(BpStr(sy, di))

\* C26: a blood pressure "S/D" of positive integers labelled "High" or "Low"
\* adds fewer than 25 points to the health score.
C26_AbnormalBpScoresLess ==
  (/\ evaluated
   /\ Exists(userData.vitals["bloodPressure"])
   /\ PositiveBp(userData.vitals["bloodPressure"].value)
   /\ StatusAt("bloodPressure") \in {"High", "Low"})
  => (ScoredAt("bloodPressure") /\ PointsAt("bloodPressure") < 25)

\* "85/55" is labelled "Low" and adds the full 25 points
C26_Failing ==
  /\ evaluated
  /\ Exists(userData.vitals["bloodPressure"])
  /\ userData.vitals["bloodPressure"].value = Str(BpStr(85, 55))
  /\ StatusAt("bloodPressure") = "Low"
  /\ ScoredAt("bloodPressure") /\ PointsAt("bloodPressure") = 25
\* the kinds the claim compares
ComparedKinds == {"heartRate", "temperature", "oxygenLevel"}

\* C27: for every numeric heart rate, temperature and oxygen saturation the
\* label the track screen stores is the label calculateVitalStatus gives.
C27_TrackLabelsAgree ==
  (tracked.set /\ tracked.kind \in ComparedKinds)
  => tracked.status =
       calculateVitalStatus(variant, userData, tracked.kind, tracked.value)

\* 37.3 degrees are stored as "High" by the track screen and are "Normal" on
\* the home screen
C27_Failing ==
  /\ tracked.set /\ tracked.screen = "fixed"
  /\ tracked.kind = "temperature" /\ tracked.value = Dec(37, 3)
  /\ tracked.status = "High"
  /\ calculateVitalStatus(variant, userData, "temperature", tracked.value)
       = "Normal"
\* C28: after a pull-to-refresh, once the effect has run and nothing is
\* scheduled, the stored healthScore is the score of the vitals the refresh
\* stored.
C28_RefreshScoreIsFresh ==
  (loadedBy = "refresh" /\ evaluated /\ ~pending)
  => userData.healthScore = calculateHealthProgress(variant, userData).ret

\* a refresh stored vitals whose score is not the score of the defaults the
\* callback computed with, and the effect has settled on the fresh score
C28_Witness ==
  /\ loadedBy = "refresh" /\ evaluated /\ ~pending
  /\ userData.healthScore = calculateHealthProgress(variant, userData).ret
  /\ userData.healthScore #
       calculateHealthProgress(variant,
         [userData EXCEPT !.vitals = DefaultVitals("weight")]).ret
\* C24: the notifications pending hold at most one notification for a
\* reminder and a trigger time, whatever was saved, edited and fetched.
C24_OnePerReminderAndTime ==
  \A m, n \in scheduled.pending :
    (m.reminderId = n.reminderId /\ m.date = n.date) => m = n

\* two fetches of the same reminder left two notifications for the same
\* trigger time pending
C24_Failing ==
  \E m, n \in scheduled.pending :
    /\ m.identifier # n.identifier
    /\ m.reminderId = n.reminderId /\ m.date = n.date
    /\ m.by = "scheduleNotifications" /\ n.by = "scheduleNotifications"
    /\ m.scheduledAt # n.scheduledAt

EditSaved ==
  /\ form.editing # 0
  /\ form' = NoForm
  /\ Len(reminders') = Len(reminders)

\* C30: saving the form for a reminder that is being edited leaves the
\* reminder's isCompleted and createdAt as they were.
C30_EditKeepsCompletion ==
  [][EditSaved =>
       /\ reminders'[form.editing].isCompleted
            = reminders[form.editing].isCompleted
       /\ reminders'[form.editing].createdAt
            = reminders[form.editing].createdAt]_vars

\* the reminder was saved before (the notification of that save is pending)
\* and carries the createdAt of a later save
C30_Failing ==
  /\ Len(reminders) = 1
  /\ \E n \in scheduled.pending :
       /\ n.reminderId = reminders[1].id
       /\ n.by = "scheduleNotification"
       /\ n.scheduledAt < reminders[1].createdAt
====
